---- MODULE Spec2Model ----
(***************************************************************************)
(* The retrieval-augmented generation pipeline of fdds-rag.                *)
(*                                                                         *)
(* One invocation of `inference` (src/src/fdds/inference.py, and the older *)
(* variant src/src/inference.py) is modelled as a state machine whose      *)
(* program counter walks the awaits and yields of the async generator:     *)
(* compress the conversation, retrieve contexts, build the RAG prompt,     *)
(* stream the answer chunk by chunk, append the sources block.  MyChat.chat *)
(* (src/src/chat.py) consumes the generator and wraps every chunk.         *)
(*                                                                         *)
(* The language model, the compressor, the vector store and the consumer   *)
(* are the environment: what they return is chosen with \E from small sets. *)
(***************************************************************************)
EXTENDS Integers, Sequences, FiniteSets, TLC

VARIABLES
    variant,       \* "fdds" (src/src/fdds/inference.py) or "legacy" (src/src/inference.py)
    config,        \* [TOP_K, TOP_N] as loaded by Config
    history,       \* the caller's history passed to MyChat.chat
    message,       \* the new user message passed to MyChat.chat
    pc,            \* position of the async generator `inference`
    conversation,  \* query_with_history, the argument of inference
    query,         \* result of compressor.compress
    candidates,    \* elements the vector store returned for the query
    scores,        \* relevance score the reranker gave each candidate (by rank)
    rerankCalls,   \* number of scoring calls the reranker made
    contexts,      \* result of document_search.search
    texts,         \* first component returned by get_contexts
    sources,       \* second component returned by get_contexts
    prompt,        \* the RAGPrompt input handed to generate_streaming
    gen,           \* chunks the language model stream has produced so far
    out,           \* chunks inference has yielded so far
    delivered,     \* ChatResponses MyChat.chat has yielded so far
    calls,         \* number of times each external call has been issued
    stoppedAt,     \* where the generator was when an exception or a cancellation
                   \* ended it, or "none"
    rerankFailed,  \* whether the reranker's scoring call failed
    signal,        \* how the generator ended for its consumer: "none" (not ended),
                   \* "stop" (StopAsyncIteration) or "error" (an exception)
    cancelled,     \* whether the consumer has stopped iterating
    entry,         \* the entry point that started the invocation
    response,      \* what an HTTP entry point answered, or "none"
    inv,           \* the invocations of the serving layer running side by side
    options,       \* the module-level LiteLLMOptions shared by all invocations
    header,        \* the API-Key header of the request to POST /chat/
    historyIsNone, \* whether MyChat.chat of src/chat.py got history = None
    arg,           \* what the entry point passed to inference
    job,           \* the function of the document tools that is run, or "none"
    urls,          \* the lines of the file of URLs the tool reads
    documents,     \* the list `documents` the ingestion builds
    listed,        \* what each list_sources call returned, in call order
    ingested,      \* the argument of every document_search.ingest call
    tasks,         \* state of the delete_url task of each line
    deletes,       \* the qdrant_client.delete calls issued, in call order
    result,        \* how the tool's coroutine ended, or "none"
    jpc            \* position of the tool's coroutine

vars == <<variant, config, history, message, pc, conversation, query, candidates,
          scores, rerankCalls, contexts, texts, sources, prompt, gen, out,
          delivered, calls, stoppedAt, rerankFailed, signal, cancelled, entry,
          response, inv, options, header, historyIsNone, arg, job, urls,
          documents, listed, ingested, tasks, deletes, result, jpc>>

(* The state of the document tools (manage_pdfs.py, pdf_loader.py).        *)
toolVars == <<job, urls, documents, listed, ingested, tasks, deletes, result, jpc>>

(* What the pipeline of one invocation never touches: the entry point, its *)
(* request and response, the other invocations, the shared options and the *)
(* document tools.                                                         *)
hostVars == <<entry, response, inv, options, header, historyIsNone, arg, toolVars>>

-----------------------------------------------------------------------------
(* Bounds of the model *)

MaxTop == 3          \* TOP_K and TOP_N set in the environment range over 1..MaxTop
NumPassages == 6     \* passages in the index that can match a query
MaxChunks == 2       \* longest answer stream
MaxHistory == 1      \* longest caller history

(* Program constants *)

MAX_NEW_TOKENS == 500
DefaultTopK == 5
DefaultTopN == 5
LegacyTopK == 20
LegacyTopN == 5

Contents == {"q1", "q2"}
HistoryMessages == {[role |-> "user", content |-> "q1"],
                    [role |-> "assistant", content |-> "a1"]}
Rewritten == "standalone"
Chunks == {"x", "y"}
ScoreValues == {1, 2}
NoQuery == "none"
NoHeader == "none"

(* The argument of a call of inference: a list of messages or a str; NoArg *)
(* while inference has not been called.                                    *)
NoArg == [type |-> "none", messages |-> <<>>, text |-> NoQuery]
ListArg(msgs) == [type |-> "list", messages |-> msgs, text |-> NoQuery]
StrArg(m) == [type |-> "str", messages |-> <<>>, text |-> m]

(* No document tool is run.                                                *)
ToolIdle ==
    /\ job = "none"
    /\ urls = <<>>
    /\ documents = <<>>
    /\ listed = <<>>
    /\ ingested = <<>>
    /\ tasks = <<>>
    /\ deletes = <<>>
    /\ result = "none"
    /\ jpc = "Idle"

Min(a, b) == IF a <= b THEN a ELSE b

SeqsUpTo(S, n) == UNION {[1..k -> S] : k \in 0..n}

-----------------------------------------------------------------------------
(* The index: passages are named by their vector-similarity rank for the   *)
(* query; passages 1 and 2 come from the same document, 3 and 4 from the   *)
(* next, and so on, so that a context set may repeat a source URL.         *)

URLOf(p) == (p + 1) \div 2

Element(p) == [id |-> p, url |-> URLOf(p), page |-> p, score |-> 0]

(* vector_store_options={"k": top_k}: the n matching passages, nearest     *)
(* first, cut to the k nearest.                                            *)
VectorStoreRetrieve(n, k) == [i \in 1..Min(n, k) |-> Element(i)]

(* LLMReranker.rerank with reranker_options={"top_n": top_n}: one scoring  *)
(* call for a non-empty candidate list, none for an empty one; candidates  *)
(* sorted by descending score, equal scores kept in candidate order; the   *)
(* first top_n kept.                                                       *)
Better(sc, i, j) == sc[i] > sc[j] \/ (sc[i] = sc[j] /\ i <= j)

Best(sc, S) == CHOOSE i \in S : \A j \in S : Better(sc, i, j)

RECURSIVE SortedPositions(_, _)
SortedPositions(sc, S) ==
    IF S = {} THEN <<>>
    ELSE LET b == Best(sc, S) IN <<b>> \o SortedPositions(sc, S \ {b})

(* Variant: a scoring call is made for every candidate list.               *)
RerankScoresAlways(els) == 1

RerankScoringCalls(els) == IF Len(els) = 0 THEN 0 ELSE 1

(* Variant: a failed scoring call leaves no context at all.                *)
rerank_DropsAllOnFailure(els, sc, top_n, ok) ==
    IF Len(els) = 0 \/ ~ok THEN <<>>
    ELSE LET order == SortedPositions(sc, DOMAIN els)
             kept == SubSeq(order, 1, Min(top_n, Len(order)))
         IN [i \in 1..Len(kept) |-> [els[kept[i]] EXCEPT !.score = sc[kept[i]]]]

(* `ok` tells whether the scoring call succeeded; when it failed the       *)
(* candidates keep their vector-similarity order and the first top_n are   *)
(* returned.                                                               *)
rerank(els, sc, top_n, ok) ==
    IF Len(els) = 0 THEN <<>>
    ELSE IF ~ok THEN SubSeq(els, 1, Min(top_n, Len(els)))
    ELSE LET order == SortedPositions(sc, DOMAIN els)
             kept == SubSeq(order, 1, Min(top_n, Len(order)))
         IN [i \in 1..Len(kept) |-> [els[kept[i]] EXCEPT !.score = sc[kept[i]]]]

(* document_search.search of the fdds variant: DocumentSearch is built     *)
(* with the reranker and is given both k and top_n.                        *)
(* Variant: DocumentSearch built without `reranker=reranker`.              *)
fdds_search_NoReranker(n, sc, top_k, top_n, ok) == VectorStoreRetrieve(n, top_k)

fdds_search(n, sc, top_k, top_n, ok) ==
    rerank(VectorStoreRetrieve(n, top_k), sc, top_n, ok)

(* document_search.search of the legacy variant: no reranker is given and  *)
(* SearchConfig carries k only; top_n is not used.                         *)
legacy_search(n, top_k, top_n) == VectorStoreRetrieve(n, top_k)

(* f"{text_representation} (source: {url}, page: {page_number})"           *)
prepare_context(context) ==
    [text |-> context.id, url |-> context.url, page |-> context.page]

(* texts = [prepare_context(context) for context in contexts]              *)
ContextTexts(ctxs) == [i \in 1..Len(ctxs) |-> prepare_context(ctxs[i])]

(* sources = set([context.document_meta.source.url for context in contexts]) *)
ContextSources(ctxs) == {ctxs[i].url : i \in 1..Len(ctxs)}

(* "\n\nPowiazane materialy: \n" + "\n".join([f"- {source}" for source in  *)
(* sources]): one line per element of the set, in the set's iteration      *)
(* order, which is any order.                                              *)
SourceLines(srcs) ==
    {l \in [1..Cardinality(srcs) -> srcs] : \A i, j \in DOMAIN l : l[i] = l[j] => i = j}

(* Variant: sources taken from the candidates instead of the contexts.     *)
get_contexts_SourcesOfCandidates(n, sc, top_k, top_n, ok) ==
    LET ctxs == fdds_search(n, sc, top_k, top_n, ok)
    IN [contexts |-> ctxs, texts |-> ContextTexts(ctxs),
        sources |-> ContextSources(VectorStoreRetrieve(n, top_k))]

(* get_contexts of the fdds variant returns (texts, sources).              *)
get_contexts(n, sc, top_k, top_n, ok) ==
    LET ctxs == fdds_search(n, sc, top_k, top_n, ok)
    IN [contexts |-> ctxs, texts |-> ContextTexts(ctxs),
        sources |-> ContextSources(ctxs)]

(* get_contexts of the legacy variant returns texts only.                  *)
legacy_get_contexts(n, top_k, top_n) ==
    LET ctxs == legacy_search(n, top_k, top_n)
    IN [contexts |-> ctxs, texts |-> ContextTexts(ctxs), sources |-> {}]

AnswerChunk(c) == [kind |-> "answer", text |-> c, lines |-> <<>>]

SourcesChunk(l) == [kind |-> "sources", text |-> "Powiazane materialy", lines |-> l]

(* Variant: the sources block is yielded without the `if sources:` test.   *)
FinalChunksAlways(srcs) == {<<SourcesChunk(l)>> : l \in SourceLines(srcs)}

(* Finalizing: `if sources:` yields sources_str, otherwise nothing.        *)
FinalChunks(srcs) ==
    IF srcs # {} THEN {<<SourcesChunk(l)>> : l \in SourceLines(srcs)} ELSE {<<>>}

(* self.create_text_response(chunk)                                        *)
create_text_response(chunk) == [type |-> "text", content |-> chunk]

(* [*history, {"role": "user", "content": message}]                        *)
ChatConversation(h, m) == h \o <<[role |-> "user", content |-> m]>>

(* Variant: the message is appended to the caller's list.                  *)
HistoryAfterAppend(h, m) == Append(h, [role |-> "user", content |-> m])

(* The caller's history after `[*history, {...}]`: the unpacking builds a  *)
(* new list and leaves `history` as it was.                                *)
HistoryAfterChat(h, m) == h

(* parse_query: [{"role": "user", "content": sys.argv[1]}]                 *)
parse_query(m) == <<[role |-> "user", content |-> m]>>

(* RAGPrompt(QueryWithContext(query=query, context=context))               *)
RAGPrompt(q, ctx) == [query |-> q, context |-> ctx]

NoPrompt == [query |-> NoQuery, context |-> <<>>]

(* Variant: the template walks the context list backwards.                 *)
user_prompt_Reversed(p) ==
    <<p.query>> \o [i \in 1..Len(p.context) |-> p.context[Len(p.context) + 1 - i]]

(* RAGPrompt.user_prompt: the query, then `{% for item in context %}`      *)
(* one item per element of context, in list order.                         *)
user_prompt(p) == <<p.query>> \o p.context

(* compressor.compress(query_with_history): the compressor is a library    *)
(* object; what it returns is a string, either the last message unchanged  *)
(* or a rewritten standalone message.                                      *)
CompressResults(conv) == {conv[Len(conv)].content, Rewritten}

(* The stage of the pipeline a position of the generator belongs to.       *)
Stage(p) == IF p = "Yielding" THEN "Generating" ELSE p

-----------------------------------------------------------------------------
(* Configurations.  fdds: TOP_K, TOP_N are PositiveInt settings read from  *)
(* the environment (defaults 5 and 5), each on its own.  legacy: class     *)
(* attributes.                                                             *)

FddsConfigs == [TOP_K : (1..MaxTop) \cup {DefaultTopK},
                TOP_N : (1..MaxTop) \cup {DefaultTopN}]

LegacyConfig == [TOP_K |-> LegacyTopK, TOP_N |-> LegacyTopN]

Init ==
    /\ variant \in {"fdds", "legacy"}
    /\ config \in (IF variant = "fdds" THEN FddsConfigs ELSE {LegacyConfig})
    /\ history \in (IF variant = "fdds" THEN SeqsUpTo(HistoryMessages, MaxHistory)
                    ELSE {<<>>})
    /\ message \in Contents
    /\ pc = "Idle"
    /\ conversation = <<>>
    /\ query = NoQuery
    /\ candidates = <<>>
    /\ scores = <<>>
    /\ rerankCalls = 0
    /\ contexts = <<>>
    /\ texts = <<>>
    /\ sources = {}
    /\ prompt = NoPrompt
    /\ gen = <<>>
    /\ out = <<>>
    /\ delivered = <<>>
    /\ calls = [compress |-> 0, search |-> 0, generate |-> 0]
    /\ stoppedAt = "none"
    /\ rerankFailed = FALSE
    /\ signal = "none"
    /\ cancelled = FALSE
    /\ entry = (IF variant = "fdds" THEN "chat" ELSE "cli")
    /\ response = "none"
    /\ inv = <<>>
    /\ options = [max_tokens |-> MAX_NEW_TOKENS]
    /\ header = NoHeader
    /\ historyIsNone = FALSE
    /\ arg = NoArg
    /\ ToolIdle

-----------------------------------------------------------------------------
(* MyChat.chat (fdds) or main (legacy) calls inference with the            *)
(* conversation; the first __anext__ runs the generator up to              *)
(* `await compressor.compress(...)`.                                       *)
Start ==
    /\ pc = "Idle"
    /\ conversation' = IF variant = "fdds" THEN ChatConversation(history, message)
                       ELSE parse_query(message)
    /\ history' = IF variant = "fdds" THEN HistoryAfterChat(history, message)
                  ELSE history
    /\ calls' = [calls EXCEPT !.compress = @ + 1]
    /\ pc' = "Compressing"
    /\ UNCHANGED <<hostVars, rerankFailed, signal, cancelled,
                   variant, config, message, query, candidates, scores,
                   rerankCalls, contexts, texts, sources, prompt, gen, out,
                   delivered, stoppedAt>>

(* query = await compressor.compress(query_with_history) returns; the      *)
(* generator goes on to `await get_contexts(query, ...)`.                  *)
Compress ==
    /\ pc = "Compressing"
    /\ \E q \in CompressResults(conversation) : query' = q
    /\ calls' = [calls EXCEPT !.search = @ + 1]
    /\ pc' = "Retrieving"
    /\ UNCHANGED <<hostVars, rerankFailed, signal, cancelled,
                   variant, config, history, message, conversation, candidates,
                   scores, rerankCalls, contexts, texts, sources, prompt, gen, out,
                   delivered, stoppedAt>>

(* Variant: the exception is caught and the generator just returns.        *)
RaiseSwallowed(at) ==
    /\ pc = at
    /\ pc' = "Failed"
    /\ stoppedAt' = at
    /\ signal' = "stop"
    /\ UNCHANGED <<hostVars, rerankFailed, cancelled,
                   variant, config, history, message, conversation, query,
                   candidates, scores, rerankCalls, contexts, texts, sources,
                   prompt, gen, out, delivered, calls>>

(* An exception raised by an awaited call is not caught anywhere in        *)
(* inference, nor in MyChat.chat: it leaves the generator, which is then   *)
(* finished, and reaches the consumer.                                     *)
Raise(at) ==
    /\ pc = at
    /\ pc' = "Failed"
    /\ stoppedAt' = at
    /\ signal' = "error"
    /\ UNCHANGED <<hostVars, rerankFailed, cancelled,
                   variant, config, history, message, conversation, query,
                   candidates, scores, rerankCalls, contexts, texts, sources,
                   prompt, gen, out, delivered, calls>>

(* Variant: a failed compression is caught and the raw message is used.    *)
FailCompressFallsBack ==
    /\ pc = "Compressing"
    /\ query' = conversation[Len(conversation)].content
    /\ calls' = [calls EXCEPT !.search = @ + 1]
    /\ stoppedAt' = "Compressing"
    /\ pc' = "Retrieving"
    /\ UNCHANGED <<hostVars, rerankFailed, signal, cancelled,
                   variant, config, history, message, conversation, candidates,
                   scores, rerankCalls, contexts, texts, sources, prompt, gen, out,
                   delivered>>

FailCompress == Raise("Compressing")

FailRetrieve == Raise("Retrieving")

(* Variant: a failed stream is started again from the beginning.           *)
FailGenerateRetries ==
    /\ pc = "Generating"
    /\ calls.generate < 2
    /\ calls' = [calls EXCEPT !.generate = @ + 1]
    /\ gen' = <<>>
    /\ pc' = "Generating"
    /\ UNCHANGED <<hostVars, rerankFailed, signal, cancelled,
                   variant, config, history, message, conversation, query,
                   candidates, scores, rerankCalls, contexts, texts, sources,
                   prompt, out, delivered, stoppedAt>>

FailGenerate == Raise("Generating")

(* context, sources = await get_contexts(query, top_k=..., top_n=...): the *)
(* vector store returns the candidates, the reranker scores them (a call   *)
(* that may fail when there is something to score) and search returns.     *)
RetrieveFdds ==
    /\ pc = "Retrieving"
    /\ variant = "fdds"
    /\ \E n \in 0..NumPassages :
         LET cands == VectorStoreRetrieve(n, config.TOP_K) IN
         \E ok \in (IF Len(cands) = 0 THEN {TRUE} ELSE BOOLEAN) :
         \E sc \in (IF ok THEN [DOMAIN cands -> ScoreValues] ELSE {<<>>}) :
            LET r == get_contexts(n, sc, config.TOP_K, config.TOP_N, ok) IN
            /\ candidates' = cands
            /\ scores' = sc
            /\ rerankFailed' = ~ok
            /\ rerankCalls' = rerankCalls + RerankScoringCalls(cands)
            /\ contexts' = r.contexts
            /\ texts' = r.texts
            /\ sources' = r.sources
    /\ pc' = "Assembling"
    /\ UNCHANGED <<hostVars, signal, cancelled,
                   variant, config, history, message, conversation, query, prompt,
                   gen, out, delivered, calls, stoppedAt>>

(* context = await get_contexts(query, top_k=..., top_n=...): no sources.  *)
RetrieveLegacy ==
    /\ pc = "Retrieving"
    /\ variant = "legacy"
    /\ \E n \in 0..NumPassages :
         LET r == legacy_get_contexts(n, config.TOP_K, config.TOP_N) IN
         /\ candidates' = VectorStoreRetrieve(n, config.TOP_K)
         /\ contexts' = r.contexts
         /\ texts' = r.texts
    /\ pc' = "Assembling"
    /\ UNCHANGED <<hostVars, rerankFailed, signal, cancelled,
                   variant, config, history, message, conversation, query, scores,
                   rerankCalls, sources, prompt, gen, out, delivered, calls, stoppedAt>>

(* Variant: an empty context list is treated as an error.                  *)
AssembleRaisesOnEmptyContext ==
    /\ pc = "Assembling"
    /\ prompt' = IF texts = <<>> THEN prompt ELSE RAGPrompt(query, texts)
    /\ calls' = [calls EXCEPT !.generate = IF texts = <<>> THEN @ ELSE @ + 1]
    /\ pc' = IF texts = <<>> THEN "Failed" ELSE "Generating"
    /\ stoppedAt' = IF texts = <<>> THEN "Assembling" ELSE stoppedAt
    /\ signal' = IF texts = <<>> THEN "error" ELSE signal
    /\ UNCHANGED <<hostVars, rerankFailed, cancelled,
                   variant, config, history, message, conversation, query,
                   candidates, scores, rerankCalls, contexts, texts, sources, gen,
                   out, delivered>>

(* Variant: generation is skipped when no context was found.               *)
AssembleSkipsEmptyContext ==
    /\ pc = "Assembling"
    /\ prompt' = RAGPrompt(query, texts)
    /\ calls' = [calls EXCEPT !.generate = IF texts = <<>> THEN @ ELSE @ + 1]
    /\ pc' = IF texts = <<>> THEN "Finalizing" ELSE "Generating"
    /\ UNCHANGED <<hostVars, rerankFailed, signal, cancelled,
                   variant, config, history, message, conversation, query,
                   candidates, scores, rerankCalls, contexts, texts, sources, gen,
                   out, delivered, stoppedAt>>

(* stream = llm.generate_streaming(prompt=RAGPrompt(QueryWithContext(...))) *)
Assemble ==
    /\ pc = "Assembling"
    /\ prompt' = RAGPrompt(query, texts)
    /\ calls' = [calls EXCEPT !.generate = @ + 1]
    /\ pc' = "Generating"
    /\ UNCHANGED <<hostVars, rerankFailed, signal, cancelled,
                   variant, config, history, message, conversation, query,
                   candidates, scores, rerankCalls, contexts, texts, sources, gen,
                   out, delivered, stoppedAt>>

(* `async for chunk in stream`: the stream produces its next chunk.        *)
StreamNext ==
    /\ pc = "Generating"
    /\ Len(gen) < MaxChunks
    /\ \E c \in Chunks : gen' = Append(gen, c)
    /\ pc' = "Yielding"
    /\ UNCHANGED <<hostVars, rerankFailed, signal, cancelled,
                   variant, config, history, message, conversation, query,
                   candidates, scores, rerankCalls, contexts, texts, sources,
                   prompt, out, delivered, calls, stoppedAt>>

(* `yield chunk` in inference; in the fdds variant MyChat.chat receives it  *)
(* and yields create_text_response(chunk).                                 *)
(* Variant: the chunk is put in front of the earlier ones.                 *)
YieldedInFront(o, c) == <<AnswerChunk(c)>> \o o

Yielded(o, c) == Append(o, AnswerChunk(c))

ChatYielded(d, chunk) == Append(d, create_text_response(chunk))

YieldChunk ==
    /\ pc = "Yielding"
    /\ out' = Yielded(out, gen[Len(gen)])
    /\ delivered' = IF variant = "fdds" THEN ChatYielded(delivered, AnswerChunk(gen[Len(gen)]))
                    ELSE delivered
    /\ pc' = "Generating"
    /\ UNCHANGED <<hostVars, rerankFailed, signal, cancelled,
                   variant, config, history, message, conversation, query,
                   candidates, scores, rerankCalls, contexts, texts, sources,
                   prompt, gen, calls, stoppedAt>>

(* The stream is exhausted: the loop ends.                                 *)
StreamEnd ==
    /\ pc = "Generating"
    /\ pc' = "Finalizing"
    /\ UNCHANGED <<hostVars, rerankFailed, signal, cancelled,
                   variant, config, history, message, conversation, query,
                   candidates, scores, rerankCalls, contexts, texts, sources,
                   prompt, gen, out, delivered, calls, stoppedAt>>

RECURSIVE ChatYieldedAll(_, _)
ChatYieldedAll(d, chunks) ==
    IF chunks = <<>> THEN d
    ELSE ChatYieldedAll(ChatYielded(d, Head(chunks)), Tail(chunks))

(* `if sources: yield sources_str`, then the generator returns.            *)
Finalize ==
    /\ pc = "Finalizing"
    /\ \E last \in FinalChunks(sources) :
         /\ out' = out \o last
         /\ delivered' = ChatYieldedAll(delivered, last)
    /\ pc' = "Done"
    /\ signal' = "stop"
    /\ UNCHANGED <<hostVars, rerankFailed, cancelled,
                   variant, config, history, message, conversation, query,
                   candidates, scores, rerankCalls, contexts, texts, sources,
                   prompt, gen, calls, stoppedAt>>

(* Variant: the code after the loop still runs when the consumer stops.    *)
CancelStillFinalizes ==
    /\ pc \in {"Compressing", "Retrieving", "Generating", "Yielding"}
    /\ pc' = IF Stage(pc) = "Generating" THEN "Finalizing" ELSE "Cancelled"
    /\ stoppedAt' = pc
    /\ cancelled' = TRUE
    /\ UNCHANGED <<hostVars, rerankFailed, signal,
                   variant, config, history, message, conversation, query,
                   candidates, scores, rerankCalls, contexts, texts, sources,
                   prompt, gen, out, delivered, calls>>


(* The consumer stops iterating while the generator is suspended at an     *)
(* await or at a yield: the generator is closed where it stands.           *)
Cancel ==
    /\ pc \in {"Compressing", "Retrieving", "Generating", "Yielding"}
    /\ pc' = "Cancelled"
    /\ stoppedAt' = pc
    /\ cancelled' = TRUE
    /\ UNCHANGED <<hostVars, rerankFailed, signal,
                   variant, config, history, message, conversation, query,
                   candidates, scores, rerankCalls, contexts, texts, sources,
                   prompt, gen, out, delivered, calls>>

Next ==
    \/ Start
    \/ Compress
    \/ FailCompress
    \/ RetrieveFdds
    \/ RetrieveLegacy
    \/ FailRetrieve
    \/ Assemble
    \/ StreamNext
    \/ YieldChunk
    \/ StreamEnd
    \/ FailGenerate
    \/ Finalize
    \/ Cancel

Spec == Init /\ [][Next]_vars

-----------------------------------------------------------------------------
(* The entry points.  Each builds the argument of inference from what its  *)
(* caller gave it; SpecEntry runs one request through one entry point and  *)
(* then through the pipeline.                                              *)

EntryPoints == {"chat", "rootchat", "api_chat", "api_inference", "cli"}

(* Which inference an entry point imports: fdds.inference or src.inference; *)
(* both modules have a main.                                               *)
VariantsOf(e) ==
    IF e \in {"chat", "rootchat", "api_chat"} THEN {"fdds"}
    ELSE IF e = "api_inference" THEN {"legacy"}
    ELSE {"fdds", "legacy"}

(* API-Key header values a client can send, and the value of API_KEY in    *)
(* the service's environment.                                              *)
Keys == {"k1", "k2"}
EnvApiKey == "k1"

(* The fields of fdds Config.  `extra = "ignore"`: a variable of the       *)
(* environment that is not a field is dropped, so the settings object has  *)
(* these attributes and no other.                                          *)
ConfigAttrs ==
    {"OPENAI_API_KEY", "NEPTUNE_API_KEY", "QDRANT_API_KEY", "EMBEDDING_MODEL",
     "MODEL_NAME", "MAX_NEW_TOKENS", "API_URL", "QDRANT_URL", "QDRANT_PORT",
     "QDRANT_INGEST_URL", "COLLECTION_NAME", "EVAL_DATASET", "EVAL_CONFIG",
     "TOP_K", "TOP_N", "JAEGER_ENABLED", "JAEGER_URL"}

HasAttr(name) == name \in ConfigAttrs

(* get_api_key: `if api_key != config.API_KEY: raise HTTPException(403)`,  *)
(* `return api_key`.  Reading an attribute the settings object does not    *)
(* have raises AttributeError before the comparison is made.               *)
get_api_key(api_key) ==
    IF ~HasAttr("API_KEY") THEN "AttributeError"
    ELSE IF api_key # EnvApiKey THEN "HTTPException403"
    ELSE "ok"

(* {"role": element.role.value, "content": element.content}                *)
MessageDict(element) == [role |-> element.role, content |-> element.content]

(* inference(a) is called and run up to `await compressor.compress(a)`.    *)
(* The pipeline is modelled further for a non-empty list of messages; what *)
(* the library compressor does with anything else is not.                  *)
CallInference(a) ==
    /\ arg' = a
    /\ calls' = [calls EXCEPT !.compress = @ + 1]
    /\ IF a.type = "list" /\ a.messages # <<>>
       THEN conversation' = a.messages /\ pc' = "Compressing"
       ELSE conversation' = <<>> /\ pc' = "CompressingMalformed"

EntryIdle(e) == entry = e /\ pc = "Idle" /\ response = "none"

pipelineVars == <<variant, config, history, message, query, candidates, scores,
                  rerankCalls, contexts, texts, sources, prompt, gen, out,
                  delivered, stoppedAt, rerankFailed, signal, cancelled>>

(* MyChat.chat of src/src/chat.py                                          *)
EnterChat ==
    /\ EntryIdle("chat")
    /\ CallInference(ListArg(ChatConversation(history, message)))
    /\ UNCHANGED <<pipelineVars, entry, response, inv, options, header,
                   historyIsNone, toolVars>>

(* MyChat.chat of src/chat.py: `for element in history` raises TypeError   *)
(* when history is None, while the argument list is being built.           *)
EnterRootChat ==
    /\ EntryIdle("rootchat")
    /\ IF historyIsNone
       THEN /\ response' = "TypeError"
            /\ UNCHANGED <<arg, calls, conversation, pc>>
       ELSE /\ CallInference(ListArg(
                   [i \in 1..Len(history) |-> MessageDict(history[i])]
                   \o <<[role |-> "user", content |-> message]>>))
            /\ UNCHANGED response
    /\ UNCHANGED <<pipelineVars, entry, inv, options, header, historyIsNone,
                   toolVars>>

(* POST /chat/: the dependency get_api_key runs first; the handler passes  *)
(* request.query_with_history, as the client sent it, to inference.        *)
PostChat ==
    /\ EntryIdle("api_chat")
    /\ LET r == get_api_key(header) IN
       IF r # "ok"
       THEN /\ response' = r
            /\ UNCHANGED <<arg, calls, conversation, pc>>
       ELSE /\ \E body \in SeqsUpTo(HistoryMessages, MaxHistory) :
                  CallInference(ListArg(body))
            /\ response' = "StreamingResponse"
    /\ UNCHANGED <<pipelineVars, entry, inv, options, header, historyIsNone,
                   toolVars>>

(* POST /inference/: `query = request.query` is a str and is passed on.    *)
PostInference ==
    /\ EntryIdle("api_inference")
    /\ CallInference(StrArg(message))
    /\ response' = "StreamingResponse"
    /\ UNCHANGED <<pipelineVars, entry, inv, options, header, historyIsNone,
                   toolVars>>

(* main: inference(parse_query())                                          *)
Main ==
    /\ EntryIdle("cli")
    /\ CallInference(ListArg(parse_query(message)))
    /\ UNCHANGED <<pipelineVars, entry, response, inv, options, header,
                   historyIsNone, toolVars>>

InitEntry ==
    /\ entry \in EntryPoints
    /\ variant \in VariantsOf(entry)
    /\ config = (IF variant = "fdds"
                 THEN [TOP_K |-> DefaultTopK, TOP_N |-> DefaultTopN]
                 ELSE LegacyConfig)
    /\ historyIsNone \in (IF entry = "rootchat" THEN BOOLEAN ELSE {FALSE})
    /\ history \in (IF entry \in {"chat", "rootchat"} /\ ~historyIsNone
                    THEN SeqsUpTo(HistoryMessages, MaxHistory) ELSE {<<>>})
    /\ message \in Contents
    /\ header \in (IF entry = "api_chat" THEN Keys ELSE {NoHeader})
    /\ pc = "Idle"
    /\ conversation = <<>>
    /\ query = NoQuery
    /\ candidates = <<>>
    /\ scores = <<>>
    /\ rerankCalls = 0
    /\ contexts = <<>>
    /\ texts = <<>>
    /\ sources = {}
    /\ prompt = NoPrompt
    /\ gen = <<>>
    /\ out = <<>>
    /\ delivered = <<>>
    /\ calls = [compress |-> 0, search |-> 0, generate |-> 0]
    /\ stoppedAt = "none"
    /\ rerankFailed = FALSE
    /\ signal = "none"
    /\ cancelled = FALSE
    /\ response = "none"
    /\ inv = <<>>
    /\ options = [max_tokens |-> MAX_NEW_TOKENS]
    /\ arg = NoArg
    /\ ToolIdle

NextEntry ==
    \/ EnterChat
    \/ EnterRootChat
    \/ PostChat
    \/ PostInference
    \/ Main
    \/ Compress
    \/ FailCompress
    \/ RetrieveFdds
    \/ RetrieveLegacy
    \/ FailRetrieve
    \/ Assemble
    \/ StreamNext
    \/ YieldChunk
    \/ StreamEnd
    \/ FailGenerate
    \/ Finalize
    \/ Cancel

SpecEntry == InitEntry /\ [][NextEntry]_vars

-----------------------------------------------------------------------------
(* Invocations side by side.  The serving layer runs each request as its   *)
(* own call of inference; every object inference and get_contexts use      *)
(* (llm, compressor, embedder, reranker, qdrant_client, vector_store,      *)
(* document_search, query, context, sources, stream) is a local of the     *)
(* call.  The module-level `options` is the one object the calls share.    *)
(* inv[i] holds the locals of invocation i; a step of SpecConc is a step   *)
(* of one invocation, from an await or a yield to the next.                *)

NumInvocations == 2
ConcTop == 2          \* TOP_K and TOP_N of the side-by-side runs

Invocations == 1..NumInvocations

(* The inputs differ from one invocation to the other, so that a value     *)
(* that went to the wrong one shows: each consumer sends its own message,  *)
(* each language-model stream produces its own chunk, and the index holds  *)
(* a different number of passages for each query.                          *)
ConcMessage(i) == IF i = 1 THEN "q1" ELSE "q2"

ConcStream(i) == IF i = 1 THEN "x" ELSE "y"

ConcIndex(q) == IF q = "q1" THEN 1 ELSE IF q = "q2" THEN NumPassages ELSE 0

(* The scores the reranker gives when its call succeeds: the farthest      *)
(* candidate is scored best, so that reranking changes the order.          *)
ConcScores(cands) ==
    [j \in DOMAIN cands |-> IF j = Len(cands) THEN 2 ELSE 1]

ConcConfig == [TOP_K |-> ConcTop, TOP_N |-> ConcTop]

ConcLocals(i) ==
    [pc |-> "Idle", history |-> <<>>, message |-> ConcMessage(i),
     default_options |-> [max_tokens |-> 0], conversation |-> <<>>,
     query |-> NoQuery, contexts |-> <<>>, texts |-> <<>>, sources |-> {},
     prompt |-> NoPrompt, gen |-> <<>>, out |-> <<>>, stoppedAt |-> "none"]

(* What a step of an invocation leaves alone: everything but inv.          *)
concFrame == <<pipelineVars, pc, conversation, calls, entry, response,
               options, header, historyIsNone, arg, toolVars>>

(* llm = LiteLLM(..., default_options=options); inference runs up to       *)
(* `await compressor.compress(query_with_history)`.                        *)
ConcStart(i) ==
    /\ inv[i].pc = "Idle"
    /\ inv' = [inv EXCEPT ![i] =
                 [inv[i] EXCEPT
                     !.default_options = options,
                     !.conversation = ChatConversation(inv[i].history, inv[i].message),
                     !.pc = "Compressing"]]
    /\ UNCHANGED concFrame

(* query = await compressor.compress(query_with_history)                   *)
ConcCompress(i) ==
    /\ inv[i].pc = "Compressing"
    /\ \E q \in CompressResults(inv[i].conversation) :
          inv' = [inv EXCEPT ![i] = [inv[i] EXCEPT !.query = q, !.pc = "Retrieving"]]
    /\ UNCHANGED concFrame

(* Variant: context and sources are kept in module-level variables, which  *)
(* every invocation reads.                                                 *)
ConcRetrieved_ModuleLevel(f, i, res) ==
    [j \in DOMAIN f |->
        IF j = i
        THEN [f[j] EXCEPT !.contexts = res.contexts, !.texts = res.texts,
                          !.sources = res.sources, !.pc = "Assembling"]
        ELSE [f[j] EXCEPT !.texts = res.texts, !.sources = res.sources]]

(* context, sources = await get_contexts(...): the results are bound to    *)
(* locals of the call.                                                     *)
ConcRetrieved(f, i, res) ==
    [f EXCEPT ![i] = [f[i] EXCEPT !.contexts = res.contexts, !.texts = res.texts,
                                  !.sources = res.sources, !.pc = "Assembling"]]

ConcRetrieve(i) ==
    /\ inv[i].pc = "Retrieving"
    /\ LET n == ConcIndex(inv[i].query)
           cands == VectorStoreRetrieve(n, config.TOP_K)
       IN \E ok \in (IF Len(cands) = 0 THEN {TRUE} ELSE BOOLEAN) :
             inv' = ConcRetrieved(inv, i,
                        get_contexts(n, ConcScores(cands), config.TOP_K,
                                     config.TOP_N, ok))
    /\ UNCHANGED concFrame

(* stream = llm.generate_streaming(prompt=RAGPrompt(QueryWithContext(...))) *)
ConcAssemble(i) ==
    /\ inv[i].pc = "Assembling"
    /\ inv' = [inv EXCEPT ![i] =
                 [inv[i] EXCEPT !.prompt = RAGPrompt(inv[i].query, inv[i].texts),
                                !.pc = "Generating"]]
    /\ UNCHANGED concFrame

(* `async for chunk in stream: yield chunk`, one turn of the loop          *)
ConcYield(i) ==
    /\ inv[i].pc = "Generating"
    /\ Len(inv[i].gen) < MaxChunks
    /\ inv' = [inv EXCEPT ![i] =
                 [inv[i] EXCEPT !.gen = Append(inv[i].gen, ConcStream(i)),
                                !.out = Yielded(inv[i].out, ConcStream(i))]]
    /\ UNCHANGED concFrame

(* The stream ends; `if sources: yield sources_str`; the generator returns. *)
ConcFinalize(i) ==
    /\ inv[i].pc = "Generating"
    /\ \E last \in FinalChunks(inv[i].sources) :
          inv' = [inv EXCEPT ![i] =
                    [inv[i] EXCEPT !.out = inv[i].out \o last, !.pc = "Done"]]
    /\ UNCHANGED concFrame

(* An awaited call of invocation i raises.                                 *)
ConcRaise(i) ==
    /\ inv[i].pc \in {"Compressing", "Retrieving", "Generating"}
    /\ inv' = [inv EXCEPT ![i] =
                 [inv[i] EXCEPT !.stoppedAt = inv[i].pc, !.pc = "Failed"]]
    /\ UNCHANGED concFrame

InitConc ==
    /\ variant = "fdds"
    /\ config = ConcConfig
    /\ history = <<>>
    /\ message = "q1"
    /\ pc = "Idle"
    /\ conversation = <<>>
    /\ query = NoQuery
    /\ candidates = <<>>
    /\ scores = <<>>
    /\ rerankCalls = 0
    /\ contexts = <<>>
    /\ texts = <<>>
    /\ sources = {}
    /\ prompt = NoPrompt
    /\ gen = <<>>
    /\ out = <<>>
    /\ delivered = <<>>
    /\ calls = [compress |-> 0, search |-> 0, generate |-> 0]
    /\ stoppedAt = "none"
    /\ rerankFailed = FALSE
    /\ signal = "none"
    /\ cancelled = FALSE
    /\ entry = "chat"
    /\ response = "none"
    /\ header = NoHeader
    /\ historyIsNone = FALSE
    /\ arg = NoArg
    /\ options = [max_tokens |-> MAX_NEW_TOKENS]
    /\ inv = [i \in Invocations |-> ConcLocals(i)]
    /\ ToolIdle

NextConc ==
    \/ \E i \in Invocations : ConcStart(i)
    \/ \E i \in Invocations : ConcCompress(i)
    \/ \E i \in Invocations : ConcRetrieve(i)
    \/ \E i \in Invocations : ConcAssemble(i)
    \/ \E i \in Invocations : ConcYield(i)
    \/ \E i \in Invocations : ConcFinalize(i)
    \/ \E i \in Invocations : ConcRaise(i)

SpecConc == InitConc /\ [][NextConc]_vars

-----------------------------------------------------------------------------
(* The document tools: ingest_pdf_documents and delete_pdf_documents of    *)
(* src/src/fdds/manage_pdfs.py, ingest_documents and ingest_pdf_documents  *)
(* of src/src/pdf_loader.py.  WebSource, LocalFileSource, DocumentSearch   *)
(* and the Qdrant client are the environment.                              *)

MaxUrls == 2          \* most lines in the file of URLs
MaxListed == 2        \* most sources one list_sources call returns

FileLines == {"u1", "u2"}

IngestJobs == {"manage_ingest", "loader_txt", "loader_pdf", "loader_other",
               "ingest_documents"}

(* The sources list_sources returns for one location.                      *)
Sources(location, n) == [k \in 1..n |-> [location |-> location, n |-> k]]

NoDocuments == "ValueError: No documents to ingest."
NoDocumentsFound == "ValueError: No documents found"
InvalidSourceType == "ValueError: Invalid source_type"

NoDocumentsErrors == {NoDocuments, NoDocumentsFound}

(* pdf_loader.ingest_documents: `if not documents: raise ValueError(...)`, *)
(* then `await document_search.ingest(documents)`.                         *)
ingest_documents(docs) == IF docs = <<>> THEN NoDocuments ELSE "ingest"

(* pdf_loader.ingest_pdf_documents after the listing: `if len(documents)   *)
(* == 0: raise ValueError("No documents found")`, else the call of         *)
(* ingest_documents.                                                       *)
loader_ingest(docs) ==
    IF Len(docs) = 0 THEN NoDocumentsFound ELSE ingest_documents(docs)

(* Variant: the list is ingested without the test.                         *)
manage_ingest_NoTest(docs) == "ingest"

(* manage_pdfs.ingest_pdf_documents after the listing: `if len(documents):` *)
(* ingest, `else: raise ValueError("No documents to ingest.")`.            *)
manage_ingest(docs) == IF Len(docs) # 0 THEN "ingest" ELSE NoDocuments

AfterListing(j, docs) ==
    IF j = "manage_ingest" THEN manage_ingest(docs)
    ELSE IF j = "ingest_documents" THEN ingest_documents(docs)
    ELSE loader_ingest(docs)

(* The coroutine either issues document_search.ingest(docs) and waits for  *)
(* it, or ends with the exception it raised.                               *)
Decided(outcome, docs) ==
    IF outcome = "ingest"
    THEN /\ ingested' = Append(ingested, docs)
         /\ jpc' = "Ingesting"
         /\ result' = result
    ELSE /\ ingested' = ingested
         /\ jpc' = "Finished"
         /\ result' = outcome

toolFrame == <<pipelineVars, pc, conversation, calls, entry, response, inv,
               options, header, historyIsNone, arg>>

(* The ingestion runs from its call to its first await: the file of URLs   *)
(* is read (txt), the directory is listed (pdf), the source type is        *)
(* refused, or the caller's list is tested (ingest_documents).             *)
IngestStart ==
    /\ job \in IngestJobs
    /\ jpc = "Idle"
    /\ IF job \in {"manage_ingest", "loader_txt"}
       THEN IF urls = <<>>
            THEN /\ Decided(AfterListing(job, <<>>), <<>>)
                 /\ UNCHANGED <<documents, listed>>
            ELSE /\ jpc' = "Listing"
                 /\ UNCHANGED <<documents, listed, ingested, result>>
       ELSE IF job = "loader_other"
       THEN /\ Decided(InvalidSourceType, <<>>)
            /\ UNCHANGED <<documents, listed>>
       ELSE \E n \in 0..MaxListed :
               /\ documents' = Sources("local", n)
               /\ listed' = <<Sources("local", n)>>
               /\ Decided(AfterListing(job, Sources("local", n)), Sources("local", n))
    /\ UNCHANGED <<toolFrame, job, urls, tasks, deletes>>

(* documents.extend(await WebSource.list_sources(url)) for the next line;  *)
(* after the last line the list is tested.                                 *)
ListSources ==
    /\ jpc = "Listing"
    /\ \E n \in 0..MaxListed :
          LET url == urls[Len(listed) + 1]
              docs == documents \o Sources(url, n)
          IN /\ documents' = docs
             /\ listed' = Append(listed, Sources(url, n))
             /\ IF Len(listed) + 1 = Len(urls)
                THEN Decided(AfterListing(job, docs), docs)
                ELSE UNCHANGED <<ingested, jpc, result>>
    /\ UNCHANGED <<toolFrame, job, urls, tasks, deletes>>

(* An awaited call of the ingestion raises: nothing catches it.            *)
IngestAwaitRaises ==
    /\ jpc \in {"Listing", "Ingesting"}
    /\ result' = (IF jpc = "Listing" THEN "ListError" ELSE "IngestError")
    /\ jpc' = "Finished"
    /\ UNCHANGED <<toolFrame, job, urls, documents, listed, ingested, tasks, deletes>>

(* await document_search.ingest(documents) returns; the coroutine ends.    *)
IngestReturns ==
    /\ jpc = "Ingesting"
    /\ result' = "returned"
    /\ jpc' = "Finished"
    /\ UNCHANGED <<toolFrame, job, urls, documents, listed, ingested, tasks, deletes>>

(* delete_pdf_documents reads the lines and hands one delete_url           *)
(* coroutine per line to asyncio.gather, which makes a task of each.       *)
DeleteStart ==
    /\ job = "delete"
    /\ jpc = "Idle"
    /\ tasks' = [k \in 1..Len(urls) |-> "created"]
    /\ jpc' = "Gathering"
    /\ UNCHANGED <<toolFrame, job, urls, documents, listed, ingested, deletes, result>>

(* Task k runs delete_url up to `await qdrant_client.delete(...)`, with    *)
(* the filter on its own url.                                              *)
DeleteUrlCalls(k) ==
    /\ jpc = "Gathering"
    /\ tasks[k] = "created"
    /\ deletes' = Append(deletes, [task |-> k, url |-> urls[k]])
    /\ tasks' = [tasks EXCEPT ![k] = "awaiting"]
    /\ UNCHANGED <<toolFrame, job, urls, documents, listed, ingested, result, jpc>>

(* The delete of task k returns: print(f"Deleted: {url}").                 *)
DeleteUrlReturns(k) ==
    /\ jpc = "Gathering"
    /\ tasks[k] = "awaiting"
    /\ tasks' = [tasks EXCEPT ![k] = "deleted"]
    /\ UNCHANGED <<toolFrame, job, urls, documents, listed, ingested, deletes, result, jpc>>

(* Variant: delete_url has no try/except; the exception ends the task,     *)
(* gather passes it to delete_pdf_documents, and the run cancels the tasks *)
(* that are not done.                                                      *)
delete_url_except_Uncaught(ts, k) ==
    [j \in DOMAIN ts |->
        IF j = k THEN "raised"
        ELSE IF ts[j] \in {"created", "awaiting"} THEN "cancelled"
        ELSE ts[j]]

(* `except Exception as e: print(f"Error deleting {url}: {e}")`: the task  *)
(* ends normally.                                                          *)
delete_url_except(ts, k) == [ts EXCEPT ![k] = "caught"]

(* The delete of task k raises an Exception.                               *)
DeleteUrlRaises(k) ==
    /\ jpc = "Gathering"
    /\ tasks[k] = "awaiting"
    /\ tasks' = delete_url_except(tasks, k)
    /\ UNCHANGED <<toolFrame, job, urls, documents, listed, ingested, deletes, result, jpc>>

TaskDone(t) == t \in {"deleted", "caught", "raised", "cancelled"}

(* await asyncio.gather(...) ends when every task is done: it returns, or  *)
(* raises the exception of a task that raised.                             *)
GatherDone ==
    /\ jpc = "Gathering"
    /\ \A k \in DOMAIN tasks : TaskDone(tasks[k])
    /\ result' = (IF \E k \in DOMAIN tasks : tasks[k] = "raised"
                  THEN "raised" ELSE "returned")
    /\ jpc' = "Finished"
    /\ UNCHANGED <<toolFrame, job, urls, documents, listed, ingested, tasks, deletes>>

InitTool ==
    /\ job \in IngestJobs \cup {"delete"}
    /\ urls \in (IF job \in {"manage_ingest", "loader_txt", "delete"}
                 THEN SeqsUpTo(FileLines, MaxUrls) ELSE {<<>>})
    /\ documents = <<>>
    /\ listed = <<>>
    /\ ingested = <<>>
    /\ tasks = <<>>
    /\ deletes = <<>>
    /\ result = "none"
    /\ jpc = "Idle"
    /\ variant = (IF job \in {"manage_ingest", "delete"} THEN "fdds" ELSE "legacy")
    /\ config = (IF variant = "fdds"
                 THEN [TOP_K |-> DefaultTopK, TOP_N |-> DefaultTopN]
                 ELSE LegacyConfig)
    /\ history = <<>>
    /\ message = "q1"
    /\ pc = "Idle"
    /\ conversation = <<>>
    /\ query = NoQuery
    /\ candidates = <<>>
    /\ scores = <<>>
    /\ rerankCalls = 0
    /\ contexts = <<>>
    /\ texts = <<>>
    /\ sources = {}
    /\ prompt = NoPrompt
    /\ gen = <<>>
    /\ out = <<>>
    /\ delivered = <<>>
    /\ calls = [compress |-> 0, search |-> 0, generate |-> 0]
    /\ stoppedAt = "none"
    /\ rerankFailed = FALSE
    /\ signal = "none"
    /\ cancelled = FALSE
    /\ entry = "cli"
    /\ response = "none"
    /\ header = NoHeader
    /\ historyIsNone = FALSE
    /\ arg = NoArg
    /\ options = [max_tokens |-> MAX_NEW_TOKENS]
    /\ inv = <<>>

NextTool ==
    \/ IngestStart
    \/ ListSources
    \/ IngestAwaitRaises
    \/ IngestReturns
    \/ DeleteStart
    \/ \E k \in DOMAIN tasks : DeleteUrlCalls(k)
    \/ \E k \in DOMAIN tasks : DeleteUrlReturns(k)
    \/ \E k \in DOMAIN tasks : DeleteUrlRaises(k)
    \/ GatherDone

SpecTool == InitTool /\ [][NextTool]_vars

-----------------------------------------------------------------------------
(* Properties *)

Completed == pc = "Done"

Retrieved == calls.search = 1 /\ pc # "Retrieving" /\ stoppedAt # "Retrieving"

Answers(o) ==
    LET a == SelectSeq(o, LAMBDA ch : ch.kind = "answer")
    IN [i \in 1..Len(a) |-> a[i].text]

URLsOf(ts) == {ts[i].url : i \in 1..Len(ts)}

Range(f) == {f[i] : i \in DOMAIN f}

(* C1: the output stream of inference is zero or more answer chunks; when  *)
(* the invocation completes, the formatted sources block follows exactly    *)
(* once, as the last chunk, if the source set is non-empty, and there is no *)
(* block at all if it is empty; no answer chunk ever follows the block.     *)
C1_StreamShape ==
    /\ \A i \in 1..Len(out) :
          out[i].kind = "sources" => (i = Len(out) /\ Completed)
    /\ Completed =>
          IF sources # {}
          THEN /\ Len(out) = Len(gen) + 1
               /\ out[Len(out)].kind = "sources"
               /\ out[Len(out)].lines \in SourceLines(sources)
          ELSE /\ Len(out) = Len(gen)
               /\ \A i \in 1..Len(out) : out[i].kind = "answer"

C1_Witness ==
    /\ Completed
    /\ sources # {}
    /\ Len(out) = 3
    /\ out[3].kind = "sources"

(* C2: the stages of one invocation run in the order Idle, Compressing,    *)
(* Retrieving, Assembling, Generating, Finalizing, Done: every step stays   *)
(* in Generating, moves to the next stage, or ends the invocation by        *)
(* failure or cancellation; the work of a stage is not begun before the     *)
(* stage is entered; generation runs also when no context was found.        *)
NextStage(st) ==
    CASE st = "Idle" -> "Compressing"
      [] st = "Compressing" -> "Retrieving"
      [] st = "Retrieving" -> "Assembling"
      [] st = "Assembling" -> "Generating"
      [] st = "Generating" -> "Finalizing"
      [] st = "Finalizing" -> "Done"
      [] OTHER -> st

StageWork ==
    /\ Stage(pc) \in {"Idle", "Compressing"} => query = NoQuery /\ calls.search = 0
    /\ Stage(pc) \in {"Idle", "Compressing", "Retrieving"} =>
          candidates = <<>> /\ texts = <<>> /\ rerankCalls = 0
    /\ Stage(pc) \in {"Idle", "Compressing", "Retrieving", "Assembling"} =>
          prompt = NoPrompt /\ calls.generate = 0 /\ gen = <<>>
    /\ Stage(pc) \in {"Idle", "Compressing", "Retrieving", "Assembling",
                       "Generating", "Finalizing"} =>
          \A i \in 1..Len(out) : out[i].kind = "answer"

C2_StagesInOrder ==
    [][/\ \/ Stage(pc') = NextStage(Stage(pc))
          \/ Stage(pc) = "Generating" /\ Stage(pc') = "Generating"
          \/ pc' \in {"Failed", "Cancelled"}
       /\ StageWork
       /\ StageWork']_vars

C2_Witness ==
    /\ Completed
    /\ texts = <<>>
    /\ prompt = RAGPrompt(query, <<>>)
    /\ calls = [compress |-> 1, search |-> 1, generate |-> 1]
    /\ Len(gen) = MaxChunks

(* C3: unless the invocation was cancelled, the answer chunks inference    *)
(* has yielded are the chunks the language model stream produced, in the    *)
(* same order, each once (the chunk being yielded is the only one that may  *)
(* be outstanding), and MyChat.chat has yielded one text response per       *)
(* chunk of inference, in the same order.                                   *)
C3_ChunksInOrder ==
    pc # "Cancelled" =>
        /\ Answers(out) = IF pc = "Yielding" THEN SubSeq(gen, 1, Len(gen) - 1) ELSE gen
        /\ variant = "fdds" =>
              /\ Len(delivered) = Len(out)
              /\ \A i \in 1..Len(out) :
                    delivered[i].type = "text" /\ delivered[i].content = out[i]

C3_Witness ==
    /\ Completed
    /\ variant = "fdds"
    /\ Len(gen) = 2
    /\ gen[1] # gen[2]
    /\ Len(delivered) >= 2

(* C4: in the fdds variant the source set is the set of URLs of the        *)
(* contexts returned for the invocation and put in the prompt, and a        *)
(* sources block lists exactly those URLs, each once.                       *)
C4_SourcesAreContextURLs ==
    variant = "fdds" =>
        /\ sources = URLsOf(texts)
        /\ prompt # NoPrompt => sources = URLsOf(prompt.context)
        /\ \A i \in 1..Len(out) :
              out[i].kind = "sources" =>
                  /\ Range(out[i].lines) = URLsOf(prompt.context)
                  /\ Len(out[i].lines) = Cardinality(URLsOf(prompt.context))

C4_Witness ==
    /\ Completed
    /\ variant = "fdds"
    /\ Len(candidates) = 3
    /\ Len(texts) = 2
    /\ Cardinality(sources) = 1
    /\ out[Len(out)].kind = "sources"

(* C5: whenever TOP_N <= TOP_K, the contexts returned by get_contexts and  *)
(* put in the prompt number at most TOP_N, in both variants.                *)
C5_AtMostTopN ==
    config.TOP_N <= config.TOP_K =>
        /\ Len(texts) <= config.TOP_N
        /\ Len(prompt.context) <= config.TOP_N

C7_TopNWithinTopK ==
    calls.search = 1 => config.TOP_N <= config.TOP_K

(* C9: if the compressor's call fails, the invocation has failed, no       *)
(* query was produced, neither retrieval nor generation was started, and    *)
(* nothing was yielded.                                                     *)
C9_CompressionFailureAborts ==
    stoppedAt = "Compressing" /\ pc # "Cancelled" =>
        /\ pc = "Failed"
        /\ query = NoQuery
        /\ calls = [compress |-> 1, search |-> 0, generate |-> 0]
        /\ prompt = NoPrompt
        /\ gen = <<>>
        /\ out = <<>>
        /\ delivered = <<>>

C9_Witness ==
    /\ pc = "Failed"
    /\ stoppedAt = "Compressing"
    /\ Len(history) > 0

(* C10: in the fdds variant, if the vector store returned no candidate,    *)
(* the reranker made no scoring call and the contexts are empty.            *)
C10_NoCandidatesNoRerank ==
    variant = "fdds" /\ Retrieved /\ candidates = <<>> =>
        /\ rerankCalls = 0
        /\ contexts = <<>>
        /\ texts = <<>>
        /\ sources = {}

C10_Witness ==
    /\ variant = "fdds"
    /\ Completed
    /\ candidates = <<>>
    /\ calls.search = 1


(* C11: an empty context set does not fail the invocation: the generator   *)
(* is called with an empty context list in the prompt, and when the         *)
(* invocation completes the output is exactly the chunks of the stream,     *)
(* with no sources block.                                                   *)
C11_EmptyContextIsSuccess ==
    [][/\ (pc = "Assembling" /\ texts = <<>>) =>
             /\ pc' = "Generating"
             /\ prompt' = RAGPrompt(query, <<>>)
             /\ calls'.generate = 1
       /\ (pc' = "Done" /\ texts' = <<>>) =>
             /\ stoppedAt' = "none"
             /\ sources' = {}
             /\ prompt'.context = <<>>
             /\ out' = [i \in 1..Len(gen') |-> AnswerChunk(gen'[i])]]_vars

C11_Witness ==
    /\ Completed
    /\ variant = "fdds"
    /\ Retrieved
    /\ texts = <<>>
    /\ sources = {}
    /\ Len(out) = MaxChunks
    /\ Len(delivered) = MaxChunks

(* C12: in the fdds variant, when the reranker's scoring call failed, the  *)
(* retrieval did not fail: the contexts are the first TOP_N candidates in   *)
(* vector-similarity order, and the invocation goes on to generation and    *)
(* can complete.                                                            *)
C12_RerankFailureFallsBack ==
    variant = "fdds" /\ rerankFailed =>
        /\ stoppedAt # "Retrieving"
        /\ Len(texts) = Min(config.TOP_N, Len(candidates))
        /\ \A i \in 1..Len(texts) :
              /\ texts[i].text = candidates[i].id
              /\ texts[i].text = i
        /\ pc = "Failed" => stoppedAt = "Generating"
        /\ Stage(pc) \in {"Generating", "Finalizing", "Done"} =>
              prompt.context = texts

C12_Witness ==
    /\ Completed
    /\ variant = "fdds"
    /\ rerankFailed
    /\ Len(candidates) = 3
    /\ Len(texts) = 2
    /\ signal = "stop"

NoSourcesChunk(o) == \A i \in 1..Len(o) : o[i].kind = "answer"

(* C13: a failure ends the invocation in the Failed state, which is never  *)
(* left; the consumer gets an exception, not the normal end of the stream   *)
(* (which is signalled only on completion); nothing is yielded after the    *)
(* failure, and a failed invocation has yielded no sources block.           *)
C13_FailureIsFinalAndSignalled ==
    [][/\ (stoppedAt' # "none" /\ ~cancelled') =>
             /\ pc' = "Failed"
             /\ signal' = "error"
             /\ NoSourcesChunk(out')
       /\ pc' = "Failed" => stoppedAt' # "none" /\ signal' = "error"
       /\ signal' = "stop" <=> pc' = "Done"
       /\ stoppedAt # "none" =>
             /\ pc' = pc
             /\ out' = out
             /\ delivered' = delivered
             /\ signal' = signal]_vars

C13_Witness ==
    /\ pc = "Failed"
    /\ stoppedAt = "Generating"
    /\ signal = "error"
    /\ sources # {}
    /\ Len(out) = 1

(* C14: in one invocation the compression call, the document search and    *)
(* the streaming generation are each issued at most once, and the answer    *)
(* chunks yielded so far are the first chunks of the one stream, each       *)
(* yielded once.                                                            *)
C14_AtMostOnce ==
    /\ calls.compress <= 1
    /\ calls.search <= 1
    /\ calls.generate <= 1
    /\ rerankCalls <= 1
    /\ Len(Answers(out)) <= Len(gen)
    /\ \A i \in 1..Len(Answers(out)) : Answers(out)[i] = gen[i]

C14_Witness ==
    /\ pc = "Failed"
    /\ stoppedAt = "Generating"
    /\ calls = [compress |-> 1, search |-> 1, generate |-> 1]
    /\ Len(out) = MaxChunks

(* C15: once the consumer has cancelled, nothing more is yielded (no       *)
(* answer chunk, no sources block), what was yielded before stays as it     *)
(* was, and no exception is signalled.                                      *)
C15_CancelStopsEmission ==
    [][/\ cancelled' =>
             /\ pc' = "Cancelled"
             /\ signal' = "none"
             /\ NoSourcesChunk(out')
             /\ out' = out
             /\ delivered' = delivered
       /\ cancelled => cancelled' /\ gen' = gen]_vars

C15_Witness ==
    /\ cancelled
    /\ stoppedAt \in {"Generating", "Yielding"}
    /\ variant = "fdds"
    /\ sources # {}
    /\ Len(out) = 1
    /\ Len(delivered) = 1

(* C17: the context list of the prompt, and the items the user prompt      *)
(* renders after the query, are the passages search returned: as many, in   *)
(* the same order, each with its own text, source and page.                 *)
C17_PromptKeepsContexts ==
    prompt # NoPrompt =>
        LET items == Tail(user_prompt(prompt)) IN
        /\ Len(prompt.context) = Len(contexts)
        /\ Len(items) = Len(contexts)
        /\ \A i \in 1..Len(contexts) :
              /\ prompt.context[i].text = contexts[i].id
              /\ items[i].text = contexts[i].id
              /\ items[i].url = contexts[i].url
              /\ items[i].page = contexts[i].page

C17_Witness ==
    /\ prompt # NoPrompt
    /\ variant = "fdds"
    /\ Len(prompt.context) = 3
    /\ contexts[1].id = 2
    /\ contexts[2].id = 3
    /\ contexts[3].id = 1

(* C18: no step of an invocation changes the caller's history.             *)
C18_HistoryNotMutated ==
    [][history' = history]_vars

C18_Witness ==
    /\ Completed
    /\ Len(history) = MaxHistory
    /\ Len(conversation) = Len(history) + 1
    /\ \A i \in 1..Len(history) : conversation[i] = history[i]
    /\ conversation[Len(conversation)] = [role |-> "user", content |-> message]

EntryPointRan == pc # "Idle" \/ response # "none"

(* C19: an entry point that has run and has not refused the request has    *)
(* called inference with a non-empty list of role/content messages whose   *)
(* last element is the new message with role user.                         *)
C19_EntryPointsPassConversation ==
    (EntryPointRan /\ response \notin {"HTTPException403", "AttributeError"}) =>
        /\ arg.type = "list"
        /\ arg.messages # <<>>
        /\ arg.messages[Len(arg.messages)] = [role |-> "user", content |-> message]

(* C20: a request to POST /chat/ whose API-Key header is not the           *)
(* configured key is answered 403 and inference is not called; inference   *)
(* is called only for a request that carries the configured key.           *)
C20_WrongKeyRejected403 ==
    (entry = "api_chat" /\ EntryPointRan) =>
        /\ header # EnvApiKey => response = "HTTPException403" /\ arg = NoArg
        /\ arg # NoArg => header = EnvApiKey

(* Where invocation r stands in the pipeline, also after it failed.        *)
ConcReached(r) == IF r.pc = "Failed" THEN r.stoppedAt ELSE r.pc

(* The context lists search can return for a query.                        *)
OwnContexts(q) ==
    LET n == ConcIndex(q)
        cands == VectorStoreRetrieve(n, config.TOP_K)
    IN {fdds_search(n, ConcScores(cands), config.TOP_K, config.TOP_N, ok) :
           ok \in BOOLEAN}

(* The locals r of invocation i come from its own inputs alone.            *)
OwnState(r, i) ==
    /\ r.message = ConcMessage(i)
    /\ r.pc # "Idle" =>
          /\ r.conversation = ChatConversation(r.history, r.message)
          /\ r.default_options = options
    /\ IF ConcReached(r) \in {"Idle", "Compressing"}
       THEN r.query = NoQuery
       ELSE r.query \in CompressResults(r.conversation)
    /\ IF ConcReached(r) \in {"Idle", "Compressing", "Retrieving"}
       THEN r.contexts = <<>> /\ r.texts = <<>> /\ r.sources = {}
       ELSE /\ r.contexts \in OwnContexts(r.query)
            /\ r.texts = ContextTexts(r.contexts)
            /\ r.sources = ContextSources(r.contexts)
    /\ IF ConcReached(r) \in {"Generating", "Done"}
       THEN r.prompt = RAGPrompt(r.query, r.texts)
       ELSE r.prompt = NoPrompt
    /\ \A k \in 1..Len(r.gen) : r.gen[k] = ConcStream(i)
    /\ Answers(r.out) = r.gen
    /\ \A k \in 1..Len(r.out) :
          r.out[k].kind = "sources" =>
              /\ r.pc = "Done"
              /\ k = Len(r.out)
              /\ r.out[k].lines \in SourceLines(r.sources)

(* C16: whatever the interleaving, a step changes the locals of one        *)
(* invocation only and never the shared options, and after it the query,   *)
(* contexts, sources, prompt and output of every invocation are those of   *)
(* its own message, its own search and its own stream.                     *)
C16_InvocationsIsolated ==
    [][/\ options' = options
       /\ \A i, j \in Invocations :
             (i # j /\ inv'[i] # inv[i]) => inv'[j] = inv[j]
       /\ \A i \in Invocations : OwnState(inv'[i], i)]_vars

C16_Witness ==
    /\ inv # <<>>
    /\ inv[1].pc = "Done"
    /\ inv[2].pc = "Generating"
    /\ Len(inv[1].texts) = 1
    /\ Len(inv[2].texts) = ConcTop
    /\ inv[1].sources # {}
    /\ Len(inv[1].out) = MaxChunks + 1
    /\ Len(inv[2].out) = 1

RECURSIVE Flatten(_)
Flatten(ls) == IF ls = <<>> THEN <<>> ELSE Head(ls) \o Flatten(Tail(ls))

(* The ingestion got as far as testing its list.                           *)
ListTested ==
    /\ jpc \in {"Ingesting", "Finished"}
    /\ result \notin {"ListError", InvalidSourceType}

(* C21: an ingestion whose list of documents is empty ends with ValueError *)
(* and has not called document_search.ingest; one whose list is not empty  *)
(* has called ingest once, with the whole list, which holds every source   *)
(* that was listed, in order; ingest is never called a second time.        *)
C21_IngestOnceOrValueError ==
    job \in IngestJobs =>
        /\ Len(ingested) <= 1
        /\ documents = Flatten(listed)
        /\ \A c \in 1..Len(ingested) :
              ingested[c] # <<>> /\ ingested[c] = Flatten(listed)
        /\ (ListTested /\ documents = <<>>) =>
              /\ jpc = "Finished"
              /\ result \in NoDocumentsErrors
              /\ ingested = <<>>
        /\ (ListTested /\ documents # <<>>) =>
              /\ Len(ingested) = 1
              /\ result \in {"none", "returned", "IngestError"}
        /\ result \in NoDocumentsErrors => documents = <<>>

C21_Witness ==
    /\ job = "manage_ingest"
    /\ result = "returned"
    /\ Len(urls) = MaxUrls
    /\ Len(listed[1]) = 0
    /\ Len(listed[2]) = MaxListed
    /\ ingested = <<Sources(urls[2], MaxListed)>>

DeletesOf(k) == {c \in 1..Len(deletes) : deletes[c].task = k}

(* C22: a deletion issues one delete per line of the file, filtered on     *)
(* that line's URL; a delete_url task that has not called yet can do so    *)
(* whatever the others are waiting for; no task ends with an exception or  *)
(* is cancelled, also after the delete of another one failed; and          *)
(* delete_pdf_documents returns, with every line's delete issued.          *)
C22_DeletesIndependent ==
    job = "delete" =>
        /\ \A c \in 1..Len(deletes) : deletes[c].url = urls[deletes[c].task]
        /\ \A k \in DOMAIN tasks :
              /\ tasks[k] \notin {"raised", "cancelled"}
              /\ Cardinality(DeletesOf(k)) = (IF tasks[k] = "created" THEN 0 ELSE 1)
              /\ (jpc = "Gathering" /\ tasks[k] = "created") => ENABLED DeleteUrlCalls(k)
        /\ result \in {"none", "returned"}
        /\ jpc = "Finished" =>
              /\ result = "returned"
              /\ Len(tasks) = Len(urls)
              /\ Len(deletes) = Len(urls)
              /\ \A k \in DOMAIN tasks : tasks[k] \in {"deleted", "caught"}

C22_Witness ==
    /\ job = "delete"
    /\ result = "returned"
    /\ Len(urls) = MaxUrls
    /\ tasks[1] = "caught"
    /\ tasks[2] = "deleted"
    /\ deletes[1].task = 2

====
